---- MODULE Spec2Model ----
(***************************************************************************)
(* Watch2Gether room session coordinator: the in-memory Room / Rooms       *)
(* classes (server/lib/rooms.js) and the Socket.IO / HTTP handlers of      *)
(* server.js (room:join, chat:message, host:action, host:take,             *)
(* disconnecting, POST /upload).  Node processes one event to completion   *)
(* before the next, so every handler is one atomic action.                 *)
(*                                                                         *)
(* Representation of JavaScript values:                                    *)
(*   - ids (room ids, user ids, socket ids) are TLA+ strings; null and     *)
(*     undefined are the sentinel strings Null and Undefined;              *)
(*   - display strings (user names, chat text, log text) are sequences of  *)
(*     one-character strings, so that trim / slice / length are computed;  *)
(*     a literal of a template string is kept as one chunk;                *)
(*   - an optional argument is None (absent) or Some(v);                   *)
(*   - a playback time is a tagged value Num(n), TimeUndefined, TimeNull;  *)
(*   - uuidv4() is a counter: every call returns a value never seen        *)
(*     before;  timestamps (new Date()) are left out of the records.       *)
(*                                                                         *)
(* Every connection is also given the state the Room page of the client    *)
(* keeps for it (hostId, playbackState), updated by the page's socket      *)
(* handlers when the events a server handler emitted are delivered, in     *)
(* emission order, at the end of that handler.                             *)
(***************************************************************************)
EXTENDS Integers, Sequences, FiniteSets, TLC

VARIABLES
  rooms,        \* Rooms.map : room key -> Room
  socketRooms,  \* socket.rooms of every socket, in insertion order
  connected,    \* the sockets whose connection is open
  uuid,         \* number of uuidv4() values handed out so far
  steps,        \* number of state-changing events processed so far
  last,         \* the handler that ran last and the reply it gave to its callback
  out,          \* the events emitted by the handler that ran last, in order
  view          \* hostId and playbackState as the client behind each socket holds them

vars == <<rooms, socketRooms, connected, uuid, steps, last, out, view>>

----------------------------------------------------------------------------
(* Bounds of the model *)

MaxSteps == 4

(* accepted events followed from a state whose log is already full *)
LogSteps == 2

(* Program constants *)

LogCap == 500
MaxNameLen == 32
CmdLen == 5
SnapshotLogs == 50

----------------------------------------------------------------------------
(* JavaScript values *)

Null == "<null>"
Undefined == "<undefined>"
None == <<>>
Some(v) == <<v>>

Range(f) == {f[i] : i \in DOMAIN f}

Rep(ch, n) == [i \in 1..n |-> ch]

Truthy(id) == id \notin {Null, Undefined, ""}

Uuid(n) == "id" \o ToString(n)

Num(n) == [t |-> "num", v |-> n]
TimeUndefined == [t |-> "undefined", v |-> 0]
TimeNull == [t |-> "null", v |-> 0]

(* the literal '/name' of the rename command *)
CmdName == <<"/", "n", "a", "m", "e">>

(* a || b on times: zero is taken for absent too *)
CoalesceFalsy(a, b) == IF a.t \in {"undefined", "null"} \/ a.v = 0 THEN b ELSE a

(* a ?? b on times *)
Coalesce(a, b) == IF a.t \in {"undefined", "null"} THEN b ELSE a

(* String.prototype.trim on a sequence of characters *)
WhiteSpace == {" ", "\t"}

RECURSIVE trimStart(_)
trimStart(s) ==
  IF s # <<>> /\ Head(s) \in WhiteSpace THEN trimStart(Tail(s)) ELSE s

RECURSIVE trimEnd(_)
trimEnd(s) ==
  IF s # <<>> /\ s[Len(s)] \in WhiteSpace
    THEN trimEnd(SubSeq(s, 1, Len(s) - 1))
    ELSE s

trim(s) == trimEnd(trimStart(s))

startsWith(s, p) == Len(s) >= Len(p) /\ SubSeq(s, 1, Len(p)) = p

slice(s, n) == SubSeq(s, n + 1, Len(s))

----------------------------------------------------------------------------
(* Inputs the clients may send *)

Sockets == {"sockA", "sockB"}

(* Object.prototype members every plain object {} inherits: users[key] is  *)
(* truthy for them although no such user was ever added.                   *)
ProtoKeys == {"constructor"}

(* room ids a client may put in an event: a link's id, the id of another   *)
(* connection (which Socket.IO also uses as the name of that connection's  *)
(* own room), and the empty string                                         *)
RoomIdInputs == {"abc", "sockA", ""}

NameAl == <<"A", "l">>
UsernameInputs == {None, Some(NameAl)}
GuestNumbers == {"512"}

(* the username each client puts in its room:join: the client behind sockA *)
(* sends none, the client behind sockB sends "Al"                          *)
UsernameOf(s) == IF s = "sockA" THEN None ELSE Some(NameAl)

ActionInputs == {"play", "pause", "seek", "stop"}
TimeInputs == {TimeUndefined, Num(10)}

VideoInputs ==
  { [filename |-> <<"a.mp4">>, savedName |-> "f1.mp4", size |-> 1] }

(* Chat texts: a plain message, and rename commands built around a name    *)
(* that has no white space at either end, so that the name the command     *)
(* carries is known without trimming anything                              *)
Hi == <<"h", "i">>

RenameInputs ==
  { [text |-> <<" ">> \o CmdName \o <<" ", "\t">> \o core \o <<" ">>, core |-> core] :
      core \in {<<>>, <<"Z">>, Rep("x", MaxNameLen), Rep("x", MaxNameLen + 1)} }

ChatTexts == {Hi} \cup {c.text : c \in RenameInputs}

----------------------------------------------------------------------------
(* class Room *)

NewRoom(id) ==
  [ id |-> id,
    users |-> <<>>,
    hostId |-> Null,
    video |-> None,
    logs |-> <<>>,
    playbackState |-> [playing |-> FALSE, time |-> Num(0)] ]

(* Room.addUser: the user record; username || `Guest-${...}` *)
MakeUser(id, socketId, username, guest) ==
  [ id |-> id,
    name |-> IF username # None /\ username[1] # <<>>
               THEN username[1]
               ELSE <<"Guest-", guest>>,
    socketId |-> socketId ]

addUser(room, user) == [room EXCEPT !.users = Append(@, user)]

UserIds(room) == {room.users[i].id : i \in DOMAIN room.users}

HasUser(room, userId) == userId \in UserIds(room)

OwnUser(room, userId) ==
  room.users[CHOOSE i \in DOMAIN room.users : room.users[i].id = userId]

(* Room.getUser(userId) is this.users[userId] on a plain object: it is     *)
(* truthy for an added user and for an inherited Object.prototype key.     *)
getUserTruthy(room, userId) == HasUser(room, userId) \/ userId \in ProtoKeys

(* .name of what getUser returned: users.constructor is the function       *)
(* Object, whose name is "Object".                                         *)
getUserName(room, userId) ==
  IF HasUser(room, userId) THEN OwnUser(room, userId).name ELSE <<"Object">>

removeUser(room, userId) ==
  [room EXCEPT !.users = SelectSeq(@, LAMBDA u : u.id # userId)]

(* Room.getUserBySocket: the first user, in insertion order, of the socket *)
HasUserBySocket(room, socketId) ==
  \E i \in DOMAIN room.users : room.users[i].socketId = socketId

getUserBySocket(room, socketId) ==
  LET i == CHOOSE k \in DOMAIN room.users :
             /\ room.users[k].socketId = socketId
             /\ \A j \in 1..(k - 1) : room.users[j].socketId # socketId
  IN room.users[i]

(* an anyUser that returns the user that joined last *)
anyUserLast(room) == IF room.users # <<>> THEN Some(room.users[Len(room.users)]) ELSE None

(* Room.anyUser: the first user in insertion order, or null *)
anyUser(room) == IF room.users # <<>> THEN Some(room.users[1]) ELSE None

userList(room) ==
  [i \in DOMAIN room.users |-> [id |-> room.users[i].id, name |-> room.users[i].name]]

(* Room.changeUsername: only an own user is renamed here; the inherited    *)
(* keys are handled by the caller (the assignment throws)                  *)
changeUsername(room, userId, newName) ==
  [room EXCEPT !.users =
     [i \in DOMAIN @ |-> IF @[i].id = userId THEN [@[i] EXCEPT !.name = newName] ELSE @[i]]]

(* a setHost that does not displace a host already there *)
setHostIfNone(room, userId) ==
  IF Truthy(room.hostId) THEN room ELSE [room EXCEPT !.hostId = userId]

setHost(room, userId) == [room EXCEPT !.hostId = userId]

LogEntry(id, type, text) == [id |-> id, type |-> type, text |-> text]

(* an addLog that never evicts *)
addLogUnbounded(room, log) == [room EXCEPT !.logs = Append(@, log)]

addLog(room, log) ==
  LET pushed == Append(room.logs, log)
  IN [room EXCEPT !.logs = IF Len(pushed) > LogCap THEN Tail(pushed) ELSE pushed]

----------------------------------------------------------------------------
(* Socket.IO rooms and handler results *)

(* io.to(name): every open socket that is in the Socket.IO room `name` *)
InRoom(sr, name) == {s \in connected : name \in Range(sr[s])}

Emit(event, to, data) == [event |-> event, to |-> to, data |-> data]

Reply(ok, error) == [ok |-> ok, error |-> error]

(* What a handler leaves behind: the directory, socket.rooms, the uuid     *)
(* counter, the reply given to the callback (None when it is not called)   *)
(* and the events emitted, in order.                                       *)
Result(rs, sr, u, reply, emitted) ==
  [rooms |-> rs, socketRooms |-> sr, uuid |-> u, reply |-> reply, out |-> emitted]

(* A handler that returned before touching anything *)
Refused(reply) == Result(rooms, socketRooms, uuid, reply, <<>>)

(* a slice that starts one entry too early *)
sliceLastOneMore(seq, n) ==
  SubSeq(seq, IF Len(seq) > n THEN Len(seq) - n ELSE 1, Len(seq))

(* Array.prototype.slice(-n): the last n elements, or all when fewer *)
sliceLast(seq, n) ==
  SubSeq(seq, IF Len(seq) > n THEN Len(seq) - n + 1 ELSE 1, Len(seq))

(* Map.set(key, room) *)
Put(rs, key, room) ==
  [k \in DOMAIN rs \cup {key} |-> IF k = key THEN room ELSE rs[k]]

(* user ids a client may put in an event: the id of every user of every    *)
(* room, an inherited key, and null (which is no user of any room)         *)
UserIdInputs ==
  UNION {UserIds(rooms[k]) : k \in DOMAIN rooms} \cup ProtoKeys \cup {Null}

----------------------------------------------------------------------------
(* socket.on('room:join') *)
JoinStep(s, roomId, username, guest) ==
  LET found == roomId \in DOMAIN rooms
      created == NewRoom(IF Truthy(roomId) THEN roomId ELSE Uuid(uuid + 1))
      u0 == IF ~found /\ ~Truthy(roomId) THEN uuid + 1 ELSE uuid
      room0 == IF found THEN rooms[roomId] ELSE created
      user == MakeUser(Uuid(u0 + 1), s, username, guest)
      room1 == addUser(room0, user)
      sr == [socketRooms EXCEPT ![s] =
               IF roomId \in Range(@) THEN @ ELSE Append(@, roomId)]
      noHost == ~Truthy(room1.hostId)
      room2 == IF noHost
                 THEN addLog(setHost(room1, user.id),
                             LogEntry(Uuid(u0 + 2), "host_assigned",
                                      user.name \o <<" became host">>))
                 ELSE room1
      u1 == IF noHost THEN u0 + 2 ELSE u0 + 1
      joinedLog == LogEntry(Uuid(u1 + 1), "user_joined", user.name \o <<" joined">>)
      room3 == addLog(room2, joinedLog)
  IN Result(Put(rooms, room3.id, room3), sr, u1 + 1,
            Some([ok |-> TRUE, error |-> Undefined, user |-> user]),
            << Emit("room:state", {s},
                    [ roomId |-> roomId,
                      users |-> userList(room3),
                      hostId |-> room3.hostId,
                      video |-> room3.video,
                      logs |-> sliceLast(room3.logs, SnapshotLogs),
                      playbackState |-> room3.playbackState ]),
               Emit("room:user_joined", InRoom(sr, roomId) \ {s},
                    [user |-> user, log |-> joinedLog]),
               Emit("room:user_list", InRoom(sr, roomId), [users |-> userList(room3)]) >>)

(* a test of the candidate with the limit off by one *)
validNameBelowLimit(newName) == newName # <<>> /\ Len(newName) < MaxNameLen

(* the test of a /name candidate: newName && newName.length <= 32 *)
validName(newName) == newName # <<>> /\ Len(newName) <= MaxNameLen

(* socket.on('chat:message') *)
ChatStep(s, roomId, userId, text) ==
  LET room == rooms[roomId]
      isCmd == startsWith(trim(text), CmdName)
      newName == trim(slice(trim(text), CmdLen))
      old == getUserName(room, userId)
      renamed == changeUsername(room, userId, newName)
      nameLog == LogEntry(Uuid(uuid + 1), "name_changed",
                          old \o <<" changed name to ">> \o newName)
      message == [id |-> Uuid(uuid + 1), userId |-> userId, username |-> old, text |-> text]
      chatLog == LogEntry(Uuid(uuid + 2), "chat", old \o <<": ">> \o text)
      to == InRoom(socketRooms, roomId)
  IN IF roomId \notin DOMAIN rooms THEN Refused(None)
     ELSE IF ~getUserTruthy(room, userId) THEN Refused(None)
     ELSE IF isCmd /\ ~validName(newName)
       THEN Refused(Some(Reply(FALSE, "invalid_name")))
     \* changeUsername assigns .name of users[userId]; for the inherited
     \* function Object that property is read-only, the strict-mode
     \* assignment throws and the handler's catch replies {ok: false}
     ELSE IF isCmd /\ ~HasUser(room, userId)
       THEN Refused(Some(Reply(FALSE, Undefined)))
     ELSE IF isCmd
       THEN Result([rooms EXCEPT ![roomId] = addLog(renamed, nameLog)],
                   socketRooms, uuid + 1, Some(Reply(TRUE, Undefined)),
                   << Emit("chat:log", to, nameLog),
                      Emit("room:user_list", to, [users |-> userList(renamed)]) >>)
     ELSE Result([rooms EXCEPT ![roomId] = addLog(room, chatLog)],
                 socketRooms, uuid + 2, Some(Reply(TRUE, Undefined)),
                 << Emit("chat:message", to, message) >>)

(* socket.on('host:take') *)
TakeHostStep(s, roomId, userId) ==
  LET room == rooms[roomId]
      previousHostId == room.hostId
      room1 == setHost(room, userId)
      log == LogEntry(Uuid(uuid + 1), "host_changed",
                      getUserName(room, userId)
                        \o <<" took host control (previous host: ">>
                        \o (IF Truthy(previousHostId)
                              THEN IF getUserTruthy(room1, previousHostId)
                                     THEN getUserName(room1, previousHostId)
                                     ELSE <<previousHostId>>
                              ELSE <<"none">>)
                        \o <<")">>)
      to == InRoom(socketRooms, roomId)
  IN IF roomId \notin DOMAIN rooms THEN Refused(Some(Reply(FALSE, "room_not_found")))
     ELSE IF ~getUserTruthy(room, userId)
       THEN Refused(Some(Reply(FALSE, "user_not_found")))
     ELSE Result([rooms EXCEPT ![roomId] = addLog(room1, log)],
                 socketRooms, uuid + 1, Some(Reply(TRUE, Undefined)),
                 << Emit("host:changed", to, [hostId |-> userId, log |-> log]),
                    Emit("room:user_list", to, [users |-> userList(room1)]) >>)

(* formatTime(sec = 0): seconds to [h:]mm:ss *)
pad2(n) == IF 0 <= n /\ n < 10 THEN "0" \o ToString(n) ELSE ToString(n)

formatTime(time) ==
  LET sec == IF time.t = "num" THEN time.v ELSE 0
      abs == IF sec < 0 THEN 0 - sec ELSE sec
      \* JavaScript % takes the sign of the dividend
      sRem == IF sec < 0 THEN 0 - (abs % 60) ELSE abs % 60
      mAbs == (abs \div 60) % 60
      mRem == IF sec < 0 THEN 0 - (mAbs + (IF abs % 60 > 0 THEN 1 ELSE 0)) ELSE mAbs
      h == sec \div 3600
  IN IF h > 0
       THEN <<ToString(h), ":", pad2(mRem), ":", pad2(sRem)>>
       ELSE <<pad2(mRem), ":", pad2(sRem)>>

(* a permission check that lets every user of the room act *)
notHostMembersPass(room, userId) == ~HasUser(room, userId)

(* the permission check of host:action: room.hostId !== userId *)
notHost(room, userId) == room.hostId # userId

(* a dispatch that takes every other action for a seek *)
isPlaybackActionAny(action) == TRUE

(* the actions the if / else-if chain of host:action has a branch for *)
isPlaybackAction(action) == action \in {"play", "pause", "seek"}

(* socket.on('host:action') *)
HostActionStep(s, roomId, userId, action, time) ==
  LET room == rooms[roomId]
      ps == room.playbackState
      ps1 == IF action = "play" THEN [playing |-> TRUE, time |-> Coalesce(time, ps.time)]
             ELSE IF action = "pause" THEN [playing |-> FALSE, time |-> Coalesce(time, ps.time)]
             ELSE IF action = "seek" THEN [ps EXCEPT !.time = time]
             ELSE ps
      type == IF action = "play" THEN "video_play"
              ELSE IF action = "pause" THEN "video_pause" ELSE "video_seek"
      verb == IF action = "play" THEN "Host played at "
              ELSE IF action = "pause" THEN "Host paused at " ELSE "Host seeked to "
      log == LogEntry(Uuid(uuid + 1), type, <<verb>> \o formatTime(ps1.time))
      to == InRoom(socketRooms, roomId)
  IN IF roomId \notin DOMAIN rooms THEN Refused(Some(Reply(FALSE, "room_not_found")))
     ELSE IF notHost(room, userId) THEN Refused(Some(Reply(FALSE, "not_host")))
     ELSE IF isPlaybackAction(action)
       THEN Result([rooms EXCEPT ![roomId] = addLog([room EXCEPT !.playbackState = ps1], log)],
                   socketRooms, uuid + 1, Some(Reply(TRUE, Undefined)),
                   << Emit("host:" \o action, to, [time |-> ps1.time, log |-> log]) >>)
     ELSE Refused(Some(Reply(TRUE, Undefined)))

(* a new video that also rewinds and stops the playback *)
setVideoAndRewind(room, meta) ==
  [room EXCEPT !.video = Some(meta),
               !.playbackState = [playing |-> FALSE, time |-> Num(0)]]

(* a video field that is filled only while the room has no video *)
setVideoIfNone(room, meta) ==
  IF room.video = None THEN [room EXCEPT !.video = Some(meta)] ELSE room

(* room.video = meta *)
setVideo(room, meta) == [room EXCEPT !.video = Some(meta)]

(* app.post('/upload') once multer has stored the file: meta is the        *)
(* description of the stored file, roomId the form field                   *)
UploadStep(roomId, meta) ==
  LET room == rooms[roomId]
      log == LogEntry(Uuid(uuid + 1), "video_uploaded", meta.filename \o <<" uploaded">>)
  IN IF Truthy(roomId) /\ roomId \in DOMAIN rooms
       THEN Result([rooms EXCEPT ![roomId] = addLog(setVideo(room, meta), log)],
                   socketRooms, uuid + 1, Some(Reply(TRUE, Undefined)),
                   << Emit("video:uploaded", InRoom(socketRooms, roomId),
                           [video |-> meta, log |-> log]) >>)
       ELSE Refused(Some(Reply(TRUE, Undefined)))

(* The body of joinedRooms.forEach in socket.on('disconnecting'), for one  *)
(* room name, on the directory rs with u uuids handed out                  *)
LeaveRoom(s, roomId, rs, u) ==
  LET room == rs[roomId]
      user == getUserBySocket(room, s)
      room1 == removeUser(room, user.id)
      log == LogEntry(Uuid(u + 1), "user_left", user.name \o <<" left">>)
      room2 == addLog(room1, log)
      to == InRoom(socketRooms, roomId)
      left == << Emit("room:user_left", to, [userId |-> user.id, log |-> log]),
                 Emit("room:user_list", to, [users |-> userList(room2)]) >>
      nextUser == anyUser(room2)
      hostLog == LogEntry(Uuid(u + 2), "host_assigned",
                          nextUser[1].name \o <<" became host after disconnect">>)
      room3 == addLog(setHost(room2, nextUser[1].id), hostLog)
  IN IF roomId \notin DOMAIN rs THEN [rooms |-> rs, uuid |-> u, out |-> <<>>]
     ELSE IF ~HasUserBySocket(room, s) THEN [rooms |-> rs, uuid |-> u, out |-> <<>>]
     ELSE IF room2.hostId # user.id
       THEN [rooms |-> [rs EXCEPT ![roomId] = room2], uuid |-> u + 1, out |-> left]
     ELSE IF nextUser # None
       THEN [ rooms |-> [rs EXCEPT ![roomId] = room3], uuid |-> u + 2,
              out |-> left \o
                << Emit("host:changed", to, [hostId |-> nextUser[1].id, log |-> hostLog]),
                   Emit("room:user_list", to, [users |-> userList(room3)]) >> ]
     ELSE [rooms |-> [rs EXCEPT ![roomId] = setHost(room2, Null)], uuid |-> u + 1, out |-> left]

RECURSIVE Teardown(_, _, _)
Teardown(s, names, acc) ==
  IF names = <<>> THEN acc
  ELSE LET r == LeaveRoom(s, Head(names), acc.rooms, acc.uuid)
       IN Teardown(s, Tail(names),
                   [rooms |-> r.rooms, uuid |-> r.uuid, out |-> acc.out \o r.out])

(* socket.on('disconnecting'): every room of socket.rooms but the socket's *)
(* own, in insertion order; afterwards the socket has left all its rooms   *)
DisconnectStep(s) ==
  LET joinedRooms == SelectSeq(socketRooms[s], LAMBDA r : r # s)
      done == Teardown(s, joinedRooms, [rooms |-> rooms, uuid |-> uuid, out |-> <<>>])
  IN Result(done.rooms, [socketRooms EXCEPT ![s] = <<>>], done.uuid, None, done.out)

----------------------------------------------------------------------------
(* The Room page of the client: useState defaults and socket handlers *)

NewView == [hostId |-> Null, playbackState |-> [playing |-> FALSE, time |-> Num(0)]]

(* one handler of the page applied to its state; the events that touch     *)
(* neither hostId nor playbackState leave it as it is                      *)
OnEvent(v, e) ==
  IF e.event = "room:state"
    THEN [hostId |-> e.data.hostId, playbackState |-> e.data.playbackState]
  ELSE IF e.event = "host:changed" THEN [v EXCEPT !.hostId = e.data.hostId]
  ELSE IF e.event = "host:play"
    THEN [v EXCEPT !.playbackState = [playing |-> TRUE, time |-> e.data.time]]
  ELSE IF e.event = "host:pause"
    THEN [v EXCEPT !.playbackState = [playing |-> FALSE, time |-> e.data.time]]
  ELSE IF e.event = "host:seek" THEN [v EXCEPT !.playbackState.time = e.data.time]
  ELSE v

(* the emitted events delivered in emission order to the sockets each was  *)
(* addressed to                                                            *)
RECURSIVE Deliver(_, _)
Deliver(vw, emitted) ==
  IF emitted = <<>> THEN vw
  ELSE Deliver([s \in DOMAIN vw |->
                  IF s \in Head(emitted).to THEN OnEvent(vw[s], Head(emitted)) ELSE vw[s]],
               Tail(emitted))

----------------------------------------------------------------------------
Init ==
  /\ rooms = <<>>
  /\ socketRooms = [s \in Sockets |-> <<s>>]
  /\ connected = Sockets
  /\ uuid = 0
  /\ steps = 0
  /\ last = [op |-> "init", reply |-> None, accepted |-> TRUE]
  /\ out = <<>>
  /\ view = [s \in Sockets |-> NewView]

(* The state after sockA joined the new room "abc" without a name and sent *)
(* the chat message "hi" `chats` times: what room:join and chat:message    *)
(* leave in the room, entry by entry (Chatted appends the entries of the   *)
(* messages from..to in order, by halves to keep the evaluation shallow).  *)
RECURSIVE Chatted(_, _, _, _)
Chatted(room, name, from, to) ==
  IF from > to THEN room
  ELSE IF from = to
    THEN addLog(room, LogEntry(Uuid(3 + 2 * from), "chat", name \o <<": ">> \o Hi))
  ELSE LET mid == (from + to) \div 2
           half == Chatted(room, name, from, mid)
       IN \* the test only forces the first half to be built before the second
          IF Len(half.logs) > 0 THEN Chatted(half, name, mid + 1, to) ELSE half

FilledRoom(chats) ==
  LET user == MakeUser(Uuid(1), "sockA", None, "512")
      room1 == addLog(setHost(addUser(NewRoom("abc"), user), user.id),
                      LogEntry(Uuid(2), "host_assigned", user.name \o <<" became host">>))
      room2 == addLog(room1, LogEntry(Uuid(3), "user_joined", user.name \o <<" joined">>))
  IN Chatted(room2, user.name, 1, chats)

(* numbers of chat messages that leave the log one short of full, full,    *)
(* and full with its first entry already evicted                           *)
Fillings == {LogCap - 3, LogCap - 2, LogCap - 1}

InitLog ==
  \E chats \in Fillings :
    LET name == MakeUser(Uuid(1), "sockA", None, "512").name
    IN /\ rooms = [k \in {"abc"} |-> FilledRoom(chats)]
       /\ socketRooms = [s \in Sockets |-> IF s = "sockA" THEN <<s, "abc">> ELSE <<s>>]
       /\ connected = Sockets
       /\ uuid = 3 + 2 * chats
       /\ steps = MaxSteps - LogSteps
       /\ last = [op |-> "chat", reply |-> Some(Reply(TRUE, Undefined)), accepted |-> TRUE]
       /\ out = << Emit("chat:message", {"sockA"},
                        [id |-> Uuid(2 + 2 * chats), userId |-> Uuid(1),
                         username |-> name, text |-> Hi]) >>
       /\ view = [s \in Sockets |->
                    IF s = "sockA" THEN [NewView EXCEPT !.hostId = Uuid(1)] ELSE NewView]

(* One handler run to completion.  An event is accepted when it changes    *)
(* the state of the server and refused when it leaves rooms, socket.rooms, *)
(* the uuid counter and the connections as they were.  Accepted events     *)
(* count against MaxSteps.  No handler reads last or out, so the events    *)
(* that can follow a refused event, and the states they lead to, are those *)
(* that can follow the state before it: a run is followed up to its first  *)
(* refused event, which loses no reachable state.                          *)
Serving == steps < MaxSteps /\ last.accepted

Handle(op, res, open) ==
  LET accepted == res.uuid # uuid \/ open # connected
  IN /\ Serving
     /\ rooms' = res.rooms
     /\ socketRooms' = res.socketRooms
     /\ uuid' = res.uuid
     /\ connected' = open
     /\ last' = [op |-> op, reply |-> res.reply, accepted |-> accepted]
     /\ out' = res.out
     \* the page of a closed connection is unmounted: its state is gone
     /\ view' = [s \in Sockets |->
                   IF s \in open THEN Deliver(view, res.out)[s] ELSE NewView]
     /\ steps' = IF accepted THEN steps + 1 ELSE steps

Join(s, roomId, username, guest) ==
  s \in connected /\ Handle("join", JoinStep(s, roomId, username, guest), connected)

Chat(s, roomId, userId, text) ==
  s \in connected /\ Handle("chat", ChatStep(s, roomId, userId, text), connected)

HostAction(s, roomId, userId, action, time) ==
  s \in connected /\ Handle("hostAction", HostActionStep(s, roomId, userId, action, time), connected)

TakeHost(s, roomId, userId) ==
  s \in connected /\ Handle("takeHost", TakeHostStep(s, roomId, userId), connected)

Upload(roomId, meta) == Handle("upload", UploadStep(roomId, meta), connected)

Disconnect(s) ==
  s \in connected /\ Handle("disconnect", DisconnectStep(s), connected \ {s})

(* chat:message, host:action and host:take use their payload only and      *)
(* never the socket they arrived on, so whichever open connection sends    *)
(* them the outcome is the same: one open connection stands for the sender *)
Senders == IF connected = {} THEN {} ELSE {CHOOSE s \in connected : TRUE}

Next ==
  \/ Serving /\ \E s \in Sockets, r \in RoomIdInputs, g \in GuestNumbers :
       Join(s, r, UsernameOf(s), g)
  \/ Serving /\ \E s \in Senders, r \in RoomIdInputs, u \in UserIdInputs, t \in ChatTexts :
       Chat(s, r, u, t)
  \/ Serving /\ \E s \in Senders, r \in RoomIdInputs, u \in UserIdInputs,
                   a \in ActionInputs, t \in TimeInputs :
       HostAction(s, r, u, a, t)
  \/ Serving /\ \E s \in Senders, r \in RoomIdInputs, u \in UserIdInputs :
       TakeHost(s, r, u)
  \/ Serving /\ \E r \in RoomIdInputs, m \in VideoInputs :
       Upload(r, m)
  \/ Serving /\ \E s \in Sockets :
       Disconnect(s)

Spec == Init /\ [][Next]_vars

(* The same server, followed from a room whose log is about to overflow *)
SpecLog == InitLog /\ [][Next]_vars

----------------------------------------------------------------------------
(* Vocabulary of the properties *)

Ok == Some(Reply(TRUE, Undefined))
Failure(error) == Some(Reply(FALSE, error))

(* the room names a client can put in an event and that name a room *)
NamedRooms == RoomIdInputs \cap DOMAIN rooms

LastLog(room) == room.logs[Len(room.logs)]

Events(emitted) == [i \in DOMAIN emitted |-> emitted[i].event]

(* the open sockets that own a user of the room *)
Audience(room) == {room.users[i].socketId : i \in DOMAIN room.users} \cap connected

----------------------------------------------------------------------------
(* C1: in every reachable state the hostId of every room is null or the id *)
(* of a user that is in the room's user map.                               *)
C1_HostIsNullOrPresent ==
  \A k \in DOMAIN rooms :
    rooms[k].hostId = Null \/ HasUser(rooms[k], rooms[k].hostId)

(* C2: a host:action whose userId differs from the room's hostId is        *)
(* answered not_host, leaves every room as it was (playback state and log  *)
(* included) and emits nothing, whatever the action and the time.          *)
C2_NonHostActionRefused ==
  Serving =>
    \A s \in connected, r \in NamedRooms, u \in UserIdInputs \cup {Undefined},
       a \in ActionInputs, t \in TimeInputs :
      u # rooms[r].hostId =>
        LET res == HostActionStep(s, r, u, a, t)
        IN /\ res.reply = Failure("not_host")
           /\ res.rooms = rooms
           /\ res.out = <<>>

(* a host:action of a user of the room who is not its host was refused,    *)
(* in a room whose host has already changed the playback state             *)
C2_Witness ==
  /\ last.op = "hostAction"
  /\ last.reply = Failure("not_host")
  /\ out = <<>>
  /\ \E k \in DOMAIN rooms :
       /\ rooms[k].playbackState.playing
       /\ Len(rooms[k].users) >= 2

(* C3: a user who joins a room that has no users (a new room included)    *)
(* becomes its host and a host_assigned entry is appended before the       *)
(* user_joined entry; a join to a room that has a host leaves hostId as it *)
(* was.                                                                    *)
C3_FirstJoinerBecomesHost ==
  Serving =>
    \A s \in connected, r \in RoomIdInputs, n \in UsernameInputs, g \in GuestNumbers :
      LET res == JoinStep(s, r, n, g)
          user == res.reply[1].user
          key == CHOOSE k \in DOMAIN res.rooms : HasUser(res.rooms[k], user.id)
          after == res.rooms[key]
      IN /\ (r \notin DOMAIN rooms \/ rooms[r].users = <<>>) =>
              /\ after.hostId = user.id
              /\ Len(after.logs) >= 2
              /\ after.logs[Len(after.logs) - 1].type = "host_assigned"
         /\ (r \in DOMAIN rooms /\ rooms[r].hostId # Null) =>
              after.hostId = rooms[r].hostId

(* C4: when the socket that owns the host of a room disconnects, then      *)
(* afterwards, if the room still has users, hostId is the id of one of     *)
(* them, the log ends with user_left followed by host_assigned and         *)
(* host:changed naming the new host was emitted; if the room has no user   *)
(* left, hostId is null.                                                   *)
C4_HostDisconnectElectsHost ==
  Serving =>
    \A s \in connected, k \in DOMAIN rooms :
      (HasUser(rooms[k], rooms[k].hostId)
         /\ OwnUser(rooms[k], rooms[k].hostId).socketId = s) =>
        LET res == DisconnectStep(s)
            after == res.rooms[k]
            n == Len(after.logs)
        IN IF after.users # <<>>
             THEN /\ HasUser(after, after.hostId)
                  /\ n >= 2
                  /\ after.logs[n - 1].type = "user_left"
                  /\ after.logs[n].type = "host_assigned"
                  /\ \E i \in DOMAIN res.out :
                       /\ res.out[i].event = "host:changed"
                       /\ res.out[i].data.hostId = after.hostId
             ELSE after.hostId = Null

(* C5: host:take for a named room by a user of that room is answered ok,   *)
(* makes that user the host whoever the host was, appends one host_changed *)
(* entry and emits host:changed with the new hostId and then the user list *)
(* to the room, which every open socket owning a user of the room is in.   *)
C5_TakeHostAlwaysSucceeds ==
  Serving =>
    \A s \in connected, r \in NamedRooms :
      \A u \in UserIds(rooms[r]) :
        LET res == TakeHostStep(s, r, u)
            after == res.rooms[r]
            log == LastLog(after)
        IN /\ res.reply = Ok
           /\ after.hostId = u
           /\ after = [rooms[r] EXCEPT !.hostId = u, !.logs = after.logs]
           /\ log.type = "host_changed"
           /\ \A i \in DOMAIN rooms[r].logs : rooms[r].logs[i].id # log.id
           /\ IF Len(rooms[r].logs) < LogCap
                THEN after.logs = Append(rooms[r].logs, log)
                ELSE after.logs = Append(Tail(rooms[r].logs), log)
           /\ res.out =
                << Emit("host:changed", InRoom(socketRooms, r), [hostId |-> u, log |-> log]),
                   Emit("room:user_list", InRoom(socketRooms, r),
                        [users |-> userList(after)]) >>
           /\ Audience(rooms[r]) \subseteq InRoom(socketRooms, r)

(* a host:take was answered ok and the host of a room is a user who was    *)
(* not the first to join it, so the host was taken from another user       *)
C5_Witness ==
  /\ last.op = "takeHost"
  /\ last.reply = Ok
  /\ Events(out) = <<"host:changed", "room:user_list">>
  /\ \E k \in DOMAIN rooms :
       /\ Len(rooms[k].users) >= 2
       /\ rooms[k].hostId = rooms[k].users[2].id
       /\ LastLog(rooms[k]).type = "host_changed"

(* C6: a join naming a room id that is not in the directory adds exactly   *)
(* the room of that id; a join naming an id that is in the directory adds  *)
(* no room and puts its user in that room, keeping its users, host, video, *)
(* playback state and log entries; no other handler adds a room.           *)
C6_JoinCreatesOnceThenReuses ==
  Serving =>
    /\ \A s \in connected, r \in RoomIdInputs, n \in UsernameInputs, g \in GuestNumbers :
         LET res == JoinStep(s, r, n, g)
             user == res.reply[1].user
         IN IF r \in DOMAIN rooms
              THEN /\ DOMAIN res.rooms = DOMAIN rooms
                   /\ res.rooms[r].users = Append(rooms[r].users, user)
                   /\ res.rooms[r].video = rooms[r].video
                   /\ res.rooms[r].playbackState = rooms[r].playbackState
                   /\ rooms[r].hostId # Null => res.rooms[r].hostId = rooms[r].hostId
              ELSE /\ DOMAIN res.rooms = DOMAIN rooms \cup {r}
                   /\ res.rooms[r].id = r
                   /\ UserIds(res.rooms[r]) = {user.id}
    /\ \A s \in connected, r \in RoomIdInputs, u \in UserIdInputs :
         /\ \A t \in ChatTexts : DOMAIN ChatStep(s, r, u, t).rooms = DOMAIN rooms
         /\ \A a \in ActionInputs, t \in TimeInputs :
              DOMAIN HostActionStep(s, r, u, a, t).rooms = DOMAIN rooms
         /\ DOMAIN TakeHostStep(s, r, u).rooms = DOMAIN rooms
    /\ \A r \in RoomIdInputs, m \in VideoInputs : DOMAIN UploadStep(r, m).rooms = DOMAIN rooms
    /\ \A s \in connected : DOMAIN DisconnectStep(s).rooms = DOMAIN rooms

(* C7: the log of a room never holds more than 500 entries, and a handler *)
(* changes it only by appending at most two new entries at the tail and    *)
(* evicting from the head exactly the entries in excess of 500: the        *)
(* entries that survive keep their order and content.                      *)
LogStep(old, new) ==
  \E n \in 0..2 :
    LET evicted == IF Len(old) + n > LogCap THEN Len(old) + n - LogCap ELSE 0
        kept == SubSeq(old, evicted + 1, Len(old))
    IN /\ Len(new) = Len(kept) + n
       /\ SubSeq(new, 1, Len(kept)) = kept
       /\ \A i \in (Len(kept) + 1)..Len(new), j \in DOMAIN old : new[i].id # old[j].id

LogsEvolve(res) ==
  \A k \in DOMAIN rooms : LogStep(rooms[k].logs, res.rooms[k].logs)

C7_LogBoundedFifo ==
  /\ \A k \in DOMAIN rooms : Len(rooms[k].logs) <= LogCap
  /\ Serving =>
       /\ \A s \in connected, r \in RoomIdInputs, n \in UsernameInputs, g \in GuestNumbers :
            LogsEvolve(JoinStep(s, r, n, g))
       /\ \A s \in connected, r \in RoomIdInputs, u \in UserIdInputs :
            /\ \A t \in ChatTexts : LogsEvolve(ChatStep(s, r, u, t))
            /\ \A a \in ActionInputs, t \in TimeInputs :
                 LogsEvolve(HostActionStep(s, r, u, a, t))
            /\ LogsEvolve(TakeHostStep(s, r, u))
       /\ \A r \in RoomIdInputs, m \in VideoInputs : LogsEvolve(UploadStep(r, m))
       /\ \A s \in connected : LogsEvolve(DisconnectStep(s))

(* a second user has joined a room whose log was full or nearly so: the    *)
(* log holds 500 entries, ends with the user_joined entry and no longer    *)
(* starts with the host_assigned entry the room began with                 *)
C7_Witness ==
  /\ last.op = "join"
  /\ \E k \in DOMAIN rooms :
       /\ Len(rooms[k].logs) = LogCap
       /\ LastLog(rooms[k]).type = "user_joined"
       /\ rooms[k].logs[1].type = "chat"
       /\ Len(rooms[k].users) = 2

(* C8: a chat message of a user of the room whose trimmed text begins with *)
(* /name renames the user, appends a name_changed entry and emits the      *)
(* entry and the user list to the room when the trimmed rest has 1 to 32   *)
(* characters; otherwise it is answered invalid_name, no room changes and  *)
(* nothing is emitted; in neither case is a chat:message emitted or a chat *)
(* entry logged.                                                           *)
C8_RenameOnlyValidNames ==
  Serving =>
    \A s \in connected, r \in NamedRooms, c \in RenameInputs :
      \A u \in UserIds(rooms[r]) :
        LET res == ChatStep(s, r, u, c.text)
            before == rooms[r]
            after == res.rooms[r]
            log == LastLog(after)
        IN /\ \A i \in DOMAIN res.out : res.out[i].event # "chat:message"
           /\ IF 1 <= Len(c.core) /\ Len(c.core) <= MaxNameLen
                THEN /\ res.reply = Ok
                     /\ after.users =
                          [i \in DOMAIN before.users |->
                             IF before.users[i].id = u
                               THEN [before.users[i] EXCEPT !.name = c.core]
                               ELSE before.users[i]]
                     /\ log.type = "name_changed"
                     /\ log.text = OwnUser(before, u).name \o <<" changed name to ">> \o c.core
                     /\ LogStep(before.logs, after.logs)
                     /\ Len(after.logs) = IF Len(before.logs) < LogCap
                                            THEN Len(before.logs) + 1 ELSE LogCap
                     /\ res.out =
                          << Emit("chat:log", InRoom(socketRooms, r), log),
                             Emit("room:user_list", InRoom(socketRooms, r),
                                  [users |-> userList(after)]) >>
                ELSE /\ res.reply = Failure("invalid_name")
                     /\ res.rooms = rooms
                     /\ res.out = <<>>

(* a /name command was accepted and a user of a room carries a name of     *)
(* exactly 32 characters, which the log's last entry reports               *)
C8_Witness ==
  /\ last.op = "chat"
  /\ last.reply = Ok
  /\ Events(out) = <<"chat:log", "room:user_list">>
  /\ \E k \in DOMAIN rooms :
       /\ LastLog(rooms[k]).type = "name_changed"
       /\ \E i \in DOMAIN rooms[k].users : Len(rooms[k].users[i].name) = MaxNameLen

(* C9: in every reachable state no two users of one room have the same     *)
(* socketId.                                                               *)
C9_OneUserPerSocketPerRoom ==
  \A k \in DOMAIN rooms :
    \A i, j \in DOMAIN rooms[k].users :
      i # j => rooms[k].users[i].socketId # rooms[k].users[j].socketId

(* C10: in every reachable state every user of every room is owned by a    *)
(* socket whose connection is open: the disconnect of a socket removed all *)
(* the users it owned.                                                     *)
C10_NoUserOfClosedSocket ==
  \A k \in DOMAIN rooms :
    \A i \in DOMAIN rooms[k].users : rooms[k].users[i].socketId \in connected

(* times a claim is tried with on top of those the clients send: zero, a   *)
(* negative number and null                                                *)
TimeProbes == TimeInputs \cup {Num(0), Num(0 - 5), TimeNull}

(* a time is supplied when the payload carries a number *)
Supplied(time) == time.t = "num"

(* C11: a play, pause or seek sent with the id of the room's host, a user  *)
(* of the room, is answered ok; play sets playing, pause clears it, each   *)
(* moves the position to the supplied time (0 included) and keeps it when  *)
(* none is supplied; seek moves the position to the supplied time and      *)
(* keeps playing; nothing else of the room and no other room changes; one  *)
(* entry of type video_play, video_pause or video_seek is appended; the    *)
(* resulting position and that entry are emitted once to the room, which   *)
(* every open socket owning a user of the room, the host's too, is in.     *)
C11_HostActionChangesPlayback ==
  Serving =>
    \A s \in connected, r \in NamedRooms, a \in {"play", "pause", "seek"}, t \in TimeProbes :
      (HasUser(rooms[r], rooms[r].hostId) /\ (a = "seek" => Supplied(t))) =>
        LET before == rooms[r]
            res == HostActionStep(s, r, before.hostId, a, t)
            after == res.rooms[r]
            log == LastLog(after)
        IN /\ res.reply = Ok
           /\ after.playbackState.playing =
                (IF a = "play" THEN TRUE
                 ELSE IF a = "pause" THEN FALSE
                 ELSE before.playbackState.playing)
           /\ after.playbackState.time =
                (IF Supplied(t) THEN t ELSE before.playbackState.time)
           /\ after = [before EXCEPT !.playbackState = after.playbackState,
                                     !.logs = after.logs]
           /\ \A k \in DOMAIN rooms \ {r} : res.rooms[k] = rooms[k]
           /\ DOMAIN res.rooms = DOMAIN rooms
           /\ log.type = (IF a = "play" THEN "video_play"
                          ELSE IF a = "pause" THEN "video_pause" ELSE "video_seek")
           /\ \A i \in DOMAIN before.logs : before.logs[i].id # log.id
           /\ IF Len(before.logs) < LogCap
                THEN after.logs = Append(before.logs, log)
                ELSE after.logs = Append(Tail(before.logs), log)
           /\ res.out = << Emit("host:" \o a, InRoom(socketRooms, r),
                                [time |-> after.playbackState.time, log |-> log]) >>
           /\ Audience(before) \subseteq InRoom(socketRooms, r)
           /\ OwnUser(before, before.hostId).socketId \in connected =>
                OwnUser(before, before.hostId).socketId \in InRoom(socketRooms, r)

(* the host paused at 10 in a room two connections are in: the room is     *)
(* paused at 10, its log ends with video_pause and both connections were   *)
(* sent host:pause with time 10                                            *)
C11_Witness ==
  /\ last.op = "hostAction"
  /\ last.reply = Ok
  /\ Events(out) = <<"host:pause">>
  /\ out[1].data.time = Num(10)
  /\ Cardinality(out[1].to) = 2
  /\ \E k \in DOMAIN rooms :
       /\ rooms[k].playbackState = [playing |-> FALSE, time |-> Num(10)]
       /\ LastLog(rooms[k]).type = "video_pause"
       /\ LastLog(rooms[k]) = out[1].data.log
       /\ HasUser(rooms[k], rooms[k].hostId)

(* C12: in every reachable state, and after every host:action whatever    *)
(* the time it carries, the playback state of every room is a boolean      *)
(* playing with a position that is a number not below zero.                *)
IsPosition(time) == time.t = "num" /\ time.v >= 0

C12_PlaybackWellFormed ==
  /\ \A k \in DOMAIN rooms :
       /\ rooms[k].playbackState.playing \in BOOLEAN
       /\ IsPosition(rooms[k].playbackState.time)
  /\ Serving =>
       \A s \in connected, r \in NamedRooms, u \in UserIdInputs,
          a \in ActionInputs, t \in TimeProbes :
         \A k \in DOMAIN rooms :
           IsPosition(HostActionStep(s, r, u, a, t).rooms[k].playbackState.time)

(* C13: host:take naming a room that is not in the directory                *)
(* (room_not_found) or a user id that is no user of the room                *)
(* (user_not_found), host:action naming a room that is not in the directory *)
(* (room_not_found) and chat:message naming such a room or such a user id   *)
(* leave every room and the directory as they were and emit nothing.        *)
C13_FailuresChangeNothing ==
  Serving =>
    \A s \in connected, r \in RoomIdInputs, u \in UserIdInputs :
      LET unknownRoom == r \notin DOMAIN rooms
          noMember == r \in DOMAIN rooms /\ ~HasUser(rooms[r], u)
          take == TakeHostStep(s, r, u)
      IN /\ unknownRoom =>
              /\ take.reply = Failure("room_not_found")
              /\ take.rooms = rooms
              /\ take.out = <<>>
              /\ \A a \in ActionInputs, t \in TimeInputs :
                   LET act == HostActionStep(s, r, u, a, t)
                   IN /\ act.reply = Failure("room_not_found")
                      /\ act.rooms = rooms
                      /\ act.out = <<>>
         /\ noMember =>
              /\ take.reply = Failure("user_not_found")
              /\ take.rooms = rooms
              /\ take.out = <<>>
         /\ (unknownRoom \/ noMember) =>
              \A t \in ChatTexts :
                LET chat == ChatStep(s, r, u, t)
                IN chat.rooms = rooms /\ chat.out = <<>>

(* C14: room:join, chat:message, host:action and host:take each give their *)
(* caller one reply, whatever room id, user id, text, action and time they *)
(* carry.                                                                  *)
C14_EveryOperationReplies ==
  Serving =>
    /\ \A s \in connected, r \in RoomIdInputs, n \in UsernameInputs, g \in GuestNumbers :
         JoinStep(s, r, n, g).reply # None
    /\ \A s \in connected, r \in RoomIdInputs, u \in UserIdInputs :
         /\ \A t \in ChatTexts : ChatStep(s, r, u, t).reply # None
         /\ \A a \in ActionInputs, t \in TimeInputs :
              HostActionStep(s, r, u, a, t).reply # None
         /\ TakeHostStep(s, r, u).reply # None

(* C15: a room:join emits exactly three events, in this order: room:state  *)
(* to the joining socket alone, carrying the room as the join left it (the *)
(* user list with the new user, hostId, video, playback state and the last *)
(* min(50, length) log entries in order, of which the last is the new      *)
(* user's user_joined entry); room:user_joined with the new user and that  *)
(* entry to every other open socket owning a user of the room and not to   *)
(* the joining socket; room:user_list with the same user list to every     *)
(* open socket owning a user of the room, the joining one too.             *)
Min(a, b) == IF a < b THEN a ELSE b

C15_JoinSnapshotAndBroadcasts ==
  Serving =>
    \A s \in connected, r \in RoomIdInputs, n \in UsernameInputs, g \in GuestNumbers :
      LET res == JoinStep(s, r, n, g)
          user == res.reply[1].user
          key == CHOOSE k \in DOMAIN res.rooms : HasUser(res.rooms[k], user.id)
          after == res.rooms[key]
          state == res.out[1]
          joined == res.out[2]
          list == res.out[3]
          sent == Len(state.data.logs)
      IN /\ res.reply[1].ok
         /\ Events(res.out) = <<"room:state", "room:user_joined", "room:user_list">>
         /\ state.to = {s}
         /\ state.data.users = userList(after)
         /\ \E i \in DOMAIN state.data.users : state.data.users[i].id = user.id
         /\ state.data.hostId = after.hostId
         /\ state.data.video = after.video
         /\ state.data.playbackState = after.playbackState
         /\ sent = Min(SnapshotLogs, Len(after.logs))
         /\ \A i \in 1..sent : state.data.logs[i] = after.logs[Len(after.logs) - sent + i]
         /\ state.data.logs[sent].type = "user_joined"
         /\ state.data.logs[sent].text = user.name \o <<" joined">>
         /\ \A i \in 1..(Len(after.logs) - 1) : after.logs[i].id # state.data.logs[sent].id
         /\ joined.data = [user |-> user, log |-> state.data.logs[sent]]
         /\ s \notin joined.to
         /\ Audience(after) \ {s} \subseteq joined.to
         /\ list.data.users = userList(after)
         /\ s \in list.to
         /\ Audience(after) \subseteq list.to

(* a second connection joined a room whose log is full: it was sent the    *)
(* last 50 of the 500 entries and a list of two users, and the connection  *)
(* already there was sent room:user_joined                                 *)
C15_Witness ==
  /\ last.op = "join"
  /\ Len(out) = 3
  /\ out[1].event = "room:state"
  /\ Len(out[1].data.logs) = SnapshotLogs
  /\ Len(out[1].data.users) = 2
  /\ out[1].to = {"sockB"}
  /\ out[2].to = {"sockA"}
  /\ out[3].to = {"sockA", "sockB"}
  /\ \E k \in DOMAIN rooms : Len(rooms[k].logs) = LogCap

(* stored files a claim is tried with on top of the one the clients upload *)
VideoProbes ==
  VideoInputs \cup { [filename |-> <<"b.mp4">>, savedName |-> "f2.mp4", size |-> 2] }

(* C16: an upload naming a room of the directory is answered ok, makes the *)
(* uploaded file's description the room's video whatever the video was,    *)
(* appends one video_uploaded entry, changes nothing else of the room and  *)
(* no other room, and emits video:uploaded with the description and that   *)
(* entry once to the room, which every open socket owning a user of the    *)
(* room is in; an upload naming no room of the directory is answered ok,   *)
(* changes no room, adds no room and emits nothing.                        *)
C16_UploadReplacesVideo ==
  Serving =>
    \A r \in RoomIdInputs, m \in VideoProbes :
      LET res == UploadStep(r, m)
      IN /\ res.reply = Ok
         /\ IF r \in DOMAIN rooms
              THEN LET before == rooms[r]
                       after == res.rooms[r]
                       log == LastLog(after)
                   IN /\ after.video = Some(m)
                      /\ after = [before EXCEPT !.video = Some(m), !.logs = after.logs]
                      /\ DOMAIN res.rooms = DOMAIN rooms
                      /\ \A k \in DOMAIN rooms \ {r} : res.rooms[k] = rooms[k]
                      /\ log.type = "video_uploaded"
                      /\ \A i \in DOMAIN before.logs : before.logs[i].id # log.id
                      /\ IF Len(before.logs) < LogCap
                           THEN after.logs = Append(before.logs, log)
                           ELSE after.logs = Append(Tail(before.logs), log)
                      /\ res.out = << Emit("video:uploaded", InRoom(socketRooms, r),
                                           [video |-> m, log |-> log]) >>
                      /\ Audience(before) \subseteq InRoom(socketRooms, r)
              ELSE /\ res.rooms = rooms
                   /\ res.out = <<>>

(* a room two connections are in was uploaded to twice: its log holds two  *)
(* video_uploaded entries, the later one last, it has a video, and         *)
(* video:uploaded went to both connections                                 *)
C16_Witness ==
  /\ last.op = "upload"
  /\ last.reply = Ok
  /\ Events(out) = <<"video:uploaded">>
  /\ Cardinality(out[1].to) = 2
  /\ \E k \in DOMAIN rooms :
       /\ rooms[k].video = Some(out[1].data.video)
       /\ LastLog(rooms[k]) = out[1].data.log
       /\ \E i \in 1..(Len(rooms[k].logs) - 1) : rooms[k].logs[i].type = "video_uploaded"

(* user names a claim is tried with on top of those the clients send: a    *)
(* name with white space around it, and white space alone                  *)
UsernameProbes ==
  UsernameInputs \cup {Some(<<" ">> \o NameAl \o <<" ">>), Some(<<" ">>), Some(<<>>)}

Digits == {"0", "1", "2", "3", "4", "5", "6", "7", "8", "9"}

(* Guest-<3 digits>: the literal and a number written with three digits *)
IsGuestName(name) ==
  /\ Len(name) = 2
  /\ name[1] = "Guest-"
  /\ \E a \in Digits \ {"0"}, b, c \in Digits : name[2] = a \o b \o c

(* C17: the user a room:join creates is named with the supplied username   *)
(* trimmed of the white space around it, or Guest-<3 digits> when no name  *)
(* is supplied; its name is never empty and never begins or ends with      *)
(* white space.                                                            *)
C17_JoinNameTrimmedOrGuest ==
  Serving =>
    \A s \in connected, r \in RoomIdInputs, n \in UsernameProbes, g \in GuestNumbers :
      LET name == JoinStep(s, r, n, g).reply[1].user.name
      IN /\ IF n # None /\ trim(n[1]) # <<>>
              THEN name = trim(n[1])
              ELSE IsGuestName(name)
         /\ name # <<>>
         /\ IsGuestName(name) \/ (name[1] \notin WhiteSpace /\ name[Len(name)] \notin WhiteSpace)

(* the users of a room that a socket owns *)
OwnedIn(room, s) == {i \in DOMAIN room.users : room.users[i].socketId = s}

(* The Room page behind socket s shows room r: as the page does, the       *)
(* socket has sent one room:join, with the room id of the page's link, so  *)
(* that it is in that one room besides its own and owns one user, in r.    *)
PageOf(s, r) ==
  /\ s \in connected
  /\ r \in DOMAIN rooms
  /\ socketRooms[s] = <<s, r>>
  /\ Cardinality(OwnedIn(rooms[r], s)) = 1
  /\ \A k \in DOMAIN rooms \ {r} : OwnedIn(rooms[k], s) = {}

(* C18: in every state between two server events, when all emitted events  *)
(* have been delivered in order, the hostId and the playback state held by *)
(* the page of every open connection equal the hostId and playback state   *)
(* of the room the page shows.                                             *)
C18_ClientViewMatchesServer ==
  \A s \in Sockets, r \in DOMAIN rooms :
    PageOf(s, r) =>
      /\ view[s].hostId = rooms[r].hostId
      /\ view[s].playbackState = rooms[r].playbackState

(* actions a claim is tried with on top of those the clients send *)
ActionProbes == ActionInputs \cup {"PLAY", ""}

(* C19: a host:action sent with the id of the room's host, a user of the   *)
(* room, and an action other than play, pause and seek is answered ok,     *)
(* leaves every room as it was (playback state and log included) and emits *)
(* nothing, whatever the time it carries.                                  *)
C19_UnknownActionIsNoOp ==
  Serving =>
    \A s \in connected, r \in NamedRooms, t \in TimeProbes :
      \A a \in ActionProbes \ {"play", "pause", "seek"} :
        HasUser(rooms[r], rooms[r].hostId) =>
          LET res == HostActionStep(s, r, rooms[r].hostId, a, t)
          IN /\ res.reply = Ok
             /\ res.rooms = rooms
             /\ res.out = <<>>

(* a host:action was answered ok without changing or emitting anything,    *)
(* in a state where a room that is playing has a user as its host          *)
C19_Witness ==
  /\ last.op = "hostAction"
  /\ last.reply = Ok
  /\ ~last.accepted
  /\ out = <<>>
  /\ \E k \in DOMAIN rooms :
       /\ HasUser(rooms[k], rooms[k].hostId)
       /\ rooms[k].playbackState = [playing |-> TRUE, time |-> Num(10)]

(* C20: when a socket that owns users of a room, none of them the room's   *)
(* host, disconnects, every user it owned there is removed, the room's log *)
(* grows by exactly one user_left entry per removed user and by nothing    *)
(* else, room:user_left for the user and the user list are emitted, the    *)
(* room's hostId and playback state stay as they were, and no host:changed *)
(* about the room is emitted.                                              *)
C20_NonHostDisconnectKeepsHost ==
  Serving =>
    \A s \in connected, k \in DOMAIN rooms :
      (/\ OwnedIn(rooms[k], s) # {}
       /\ \A i \in OwnedIn(rooms[k], s) : rooms[k].users[i].id # rooms[k].hostId) =>
        LET before == rooms[k]
            res == DisconnectStep(s)
            after == res.rooms[k]
            log == LastLog(after)
        IN /\ OwnedIn(after, s) = {}
           /\ \A i \in OwnedIn(before, s) :
                /\ log.type = "user_left"
                /\ after.logs = Append(before.logs, log)
                /\ \E e \in DOMAIN res.out :
                     /\ res.out[e] = Emit("room:user_left", res.out[e].to,
                                          [userId |-> before.users[i].id, log |-> log])
                     /\ e < Len(res.out)
                     /\ res.out[e + 1] = Emit("room:user_list", res.out[e].to,
                                              [users |-> userList(after)])
           /\ after.hostId = before.hostId
           /\ after.playbackState = before.playbackState
           /\ \A e \in DOMAIN res.out :
                res.out[e].event = "host:changed" =>
                  \A j \in DOMAIN after.logs : after.logs[j] # res.out[e].data.log

(* C21: the users of a room are kept in the order they joined (a join puts *)
(* its user behind all the users already there and a disconnect takes      *)
(* users out without reordering the rest), and whenever a disconnect       *)
(* removes the host of a room that keeps users, the new host is the first  *)
(* of the users that remain, the one that joined earliest, and it is the   *)
(* one host:changed names; the host changes in no other case.              *)
C21_ElectedHostIsEarliestJoined ==
  Serving =>
    /\ \A s \in connected, r \in RoomIdInputs, n \in UsernameInputs, g \in GuestNumbers :
         LET res == JoinStep(s, r, n, g)
             user == res.reply[1].user
             key == CHOOSE k \in DOMAIN res.rooms : HasUser(res.rooms[k], user.id)
         IN res.rooms[key].users =
              Append(IF r \in DOMAIN rooms THEN rooms[r].users ELSE <<>>, user)
    /\ \A s \in connected, k \in DOMAIN rooms :
         LET before == rooms[k]
             res == DisconnectStep(s)
             after == res.rooms[k]
             gone == UserIds(before) \ UserIds(after)
         IN /\ after.users = SelectSeq(before.users, LAMBDA u : u.id \notin gone)
            /\ after.hostId # before.hostId => before.hostId \in gone
            /\ (before.hostId \in gone /\ after.users # <<>>) =>
                 /\ after.hostId = after.users[1].id
                 /\ \E e \in DOMAIN res.out :
                      /\ res.out[e].event = "host:changed"
                      /\ res.out[e].data.hostId = after.users[1].id
                      /\ res.out[e].data.log = LastLog(after)

(* the host of a room of three users left: two users remain, the first of  *)
(* them is the host, and host:changed named it                             *)
C21_Witness ==
  /\ last.op = "disconnect"
  /\ \E k \in DOMAIN rooms :
       /\ Len(rooms[k].users) = 2
       /\ rooms[k].hostId = rooms[k].users[1].id
       /\ LastLog(rooms[k]).type = "host_assigned"
       /\ \E e \in DOMAIN out :
            /\ out[e].event = "host:changed"
            /\ out[e].data.hostId = rooms[k].users[1].id

(* C22: in every reachable state the hostId of a room is null exactly when *)
(* the room has no users.                                                  *)
C22_HostEmptyIffNoUsers ==
  \A k \in DOMAIN rooms : (rooms[k].hostId = Null) <=> (rooms[k].users = <<>>)

(* no room of the directory has another playback state after the handler *)
KeepsPlayback(res) ==
  \A k \in DOMAIN rooms : res.rooms[k].playbackState = rooms[k].playbackState

(* C23: room:join, chat:message (a /name command included), host:take, an  *)
(* upload and a disconnect leave the playback state of every room as it    *)
(* was, and so does a host:action that is not answered ok or whose action  *)
(* is not play, pause or seek; a join to a room that has no users left is  *)
(* sent the playback state, video and log entries the room was left with.  *)
C23_PlaybackChangesOnlyByHostAction ==
  Serving =>
    /\ \A s \in connected, r \in RoomIdInputs, n \in UsernameInputs, g \in GuestNumbers :
         LET res == JoinStep(s, r, n, g)
             state == res.out[1].data
         IN /\ KeepsPlayback(res)
            /\ (r \in DOMAIN rooms /\ rooms[r].users = <<>>) =>
                 /\ state.playbackState = rooms[r].playbackState
                 /\ state.video = rooms[r].video
                 /\ Len(state.users) = 1
                 /\ Len(state.logs) > Len(rooms[r].logs)
                 /\ SubSeq(state.logs, 1, Len(rooms[r].logs)) = rooms[r].logs
    /\ \A s \in connected, r \in RoomIdInputs, u \in UserIdInputs :
         /\ \A t \in ChatTexts : KeepsPlayback(ChatStep(s, r, u, t))
         /\ KeepsPlayback(TakeHostStep(s, r, u))
         /\ \A a \in ActionInputs, t \in TimeInputs :
              LET res == HostActionStep(s, r, u, a, t)
              IN ~KeepsPlayback(res) =>
                   /\ res.reply = Ok
                   /\ a \in {"play", "pause", "seek"}
                   /\ \A k \in DOMAIN rooms \ {r} :
                        res.rooms[k].playbackState = rooms[k].playbackState
    /\ \A r \in RoomIdInputs, m \in VideoProbes : KeepsPlayback(UploadStep(r, m))
    /\ \A s \in connected : KeepsPlayback(DisconnectStep(s))

(* a connection joined a room nobody was in any more and was sent what the *)
(* previous session left: a room playing at 10 and a log that begins with  *)
(* entries older than the join                                             *)
C23_Witness ==
  /\ last.op = "join"
  /\ Len(out) = 3
  /\ out[1].event = "room:state"
  /\ Len(out[1].data.users) = 1
  /\ out[1].data.playbackState = [playing |-> TRUE, time |-> Num(10)]
  /\ \E i \in DOMAIN out[1].data.logs : out[1].data.logs[i].type = "user_left"
  /\ \E k \in DOMAIN rooms :
       /\ Len(rooms[k].users) = 1
       /\ rooms[k].playbackState = out[1].data.playbackState

(* C24: a host:action changes the playback state of a room only when the   *)
(* socket that sent it owns the user that is the room's host.              *)
C24_OnlyHostConnectionControlsPlayback ==
  Serving =>
    \A s \in connected, r \in NamedRooms, u \in UserIdInputs,
       a \in ActionInputs, t \in TimeInputs :
      HostActionStep(s, r, u, a, t).rooms[r].playbackState # rooms[r].playbackState =>
        /\ HasUser(rooms[r], rooms[r].hostId)
        /\ OwnUser(rooms[r], rooms[r].hostId).socketId = s

(* C25: a handler given a room id changes no room but the one it names     *)
(* (for a join, the room its user is put in), and every event it emits is  *)
(* addressed only to sockets that own a user of that room before or after  *)
(* the handler; the same holds of a disconnect for each room the socket    *)
(* owns users in.                                                          *)
Members(res, key) ==
  (IF key \in DOMAIN rooms THEN Audience(rooms[key]) ELSE {})
    \cup Audience(res.rooms[key])

Isolated(res, key) ==
  /\ \A k \in DOMAIN rooms \ {key} : res.rooms[k] = rooms[k]
  /\ \A e \in DOMAIN res.out : res.out[e].to \subseteq Members(res, key)

OnlyOwnRooms(s, res) ==
  /\ \A k \in DOMAIN rooms : OwnedIn(rooms[k], s) = {} => res.rooms[k] = rooms[k]
  /\ \A e \in DOMAIN res.out :
       \E k \in DOMAIN rooms :
         OwnedIn(rooms[k], s) # {} /\ res.out[e].to \subseteq Audience(rooms[k])

C25_RoomsAreIsolated ==
  Serving =>
    /\ \A s \in connected, r \in RoomIdInputs, n \in UsernameInputs, g \in GuestNumbers :
         LET res == JoinStep(s, r, n, g)
             user == res.reply[1].user
             key == CHOOSE k \in DOMAIN res.rooms : HasUser(res.rooms[k], user.id)
         IN Isolated(res, key)
    /\ \A s \in connected, r \in NamedRooms, u \in UserIdInputs :
         /\ \A t \in ChatTexts : Isolated(ChatStep(s, r, u, t), r)
         /\ \A a \in ActionInputs, t \in TimeInputs : Isolated(HostActionStep(s, r, u, a, t), r)
         /\ Isolated(TakeHostStep(s, r, u), r)
    /\ \A r \in NamedRooms, m \in VideoInputs : Isolated(UploadStep(r, m), r)
    /\ \A s \in connected : OnlyOwnRooms(s, DisconnectStep(s))

====
